---- MODULE Spec2Model ----
(***************************************************************************)
(* Model of stereoVO/geometry/epipolar.py:                                 *)
(*   filter_triangulated_points  (lines 40-69)                             *)
(*   filter_matching_inliers     (lines 72-113)                            *)
(* Real-valued data is represented by integers; a true division a/b is     *)
(* kept as the exact fraction <<a, b>>.  cv2.findEssentialMat is an        *)
(* external estimator: each invocation yields an arbitrary inlier mask of  *)
(* the input length, no mask at all (None), or an exception.               *)
(***************************************************************************)
EXTENDS Integers, Sequences, FiniteSets

VARIABLES points3D, reprojError, minDistThresh, maxRadius, repErrThresh, tri,
          leftMatchesPoints, rightMatchedPoints, numTrials, inlierRatio,
          run, twin, hist

vars == <<points3D, reprojError, minDistThresh, maxRadius, repErrThresh, tri,
          leftMatchesPoints, rightMatchedPoints, numTrials, inlierRatio,
          run, twin, hist>>

triVars == <<points3D, reprojError, minDistThresh, maxRadius, repErrThresh, tri>>
matchArgs == <<leftMatchesPoints, rightMatchedPoints, numTrials, inlierRatio>>
matchVars == <<leftMatchesPoints, rightMatchedPoints, numTrials, inlierRatio,
               run, twin, hist>>

----------------------------------------------------------------------------
(* Bounds of the model *)
MaxPts == 2
MaxN == 5
MaxTrials == 2

(* Hard-coded limits of filter_triangulated_points *)
xMin == -12
xMax == 12
yMin == -8
yMax == 2

(* Input values: points on and off every limit of the admissibility test *)
Candidates3D == { <<0, 0, 1>>, <<0, 0, 0>>, <<0, 0, -1>>, <<0, 0, 3>>,
                  <<12, 0, 1>>, <<-12, 0, 1>>, <<0, 2, 1>>, <<0, -8, 1>> }
ReprojErrors == {0, 1, 2}
MinDistThreshs == {0, 1}
MaxRadii == {5, 200}
RepErrThreshs == {1, 2}
InlierRatios == { <<1, 2>>, <<4, 5>> }
PixelOffsets == {0, 10}

----------------------------------------------------------------------------
(* Helpers shared by both functions *)

\* variant: counts every entry instead of the true ones
sum_len(m) == Len(m)

\* builtin sum() over a boolean array
RECURSIVE sum(_)
sum(m) == IF Len(m) = 0 THEN 0
          ELSE (IF Head(m) THEN 1 ELSE 0) + sum(Tail(m))

\* true division a / b, kept exact
TrueDiv(a, b) == <<a, b>>

\* numpy boolean-mask indexing arr[mask]
RECURSIVE BoolIndex(_, _)
BoolIndex(arr, mask) ==
    IF Len(mask) = 0 THEN <<>>
    ELSE (IF Head(mask) THEN <<Head(arr)>> ELSE <<>>)
         \o BoolIndex(Tail(arr), Tail(mask))

\* np.logical_and(x1, x2)
logical_and(x1, x2) == [k \in 1..Len(x1) |-> x1[k] /\ x2[k]]

\* np.logical_and(x1, x2, out): the third positional parameter is the output
\* buffer; its previous content is overwritten and the call returns x1 AND x2
logical_and_out(x1, x2, out) == [k \in 1..Len(out) |-> x1[k] /\ x2[k]]

----------------------------------------------------------------------------
(* filter_triangulated_points *)

TriIdle == [pc |-> "call", error |-> "none", points3D_filter |-> <<>>,
            mask_triangulation |-> <<>>, ratioFilter |-> <<0, 0>>]

filter_triangulated_points ==
    /\ tri.pc = "call"
    /\ LET N == Len(points3D)
           mask_x == [k \in 1..N |-> points3D[k][1] > xMin /\ points3D[k][1] < xMax]
           mask_y == [k \in 1..N |-> points3D[k][2] < yMax /\ points3D[k][2] > yMin]
           mask_z == [k \in 1..N |-> points3D[k][3] > minDistThresh]
           mask_R == [k \in 1..N |-> points3D[k][1] * points3D[k][1]
                                      + points3D[k][2] * points3D[k][2]
                                      + points3D[k][3] * points3D[k][3] < maxRadius]
           mask_reproj == [k \in 1..N |-> reprojError[k] < repErrThresh]
           mask_triangulation ==
               logical_and(logical_and_out(mask_x, mask_y, mask_z), mask_reproj)
       IN  IF Len(mask_triangulation) = 0
           THEN tri' = [TriIdle EXCEPT !.pc = "raised",
                                       !.error = "ZeroDivisionError"]
           ELSE tri' = [pc |-> "returned", error |-> "none",
                        points3D_filter |-> BoolIndex(points3D, mask_triangulation),
                        mask_triangulation |-> mask_triangulation,
                        ratioFilter |-> TrueDiv(sum(mask_triangulation),
                                                Len(mask_triangulation))]
    /\ UNCHANGED <<points3D, reprojError, minDistThresh, maxRadius, repErrThresh>>
    /\ UNCHANGED matchVars

----------------------------------------------------------------------------
(* filter_matching_inliers *)

RunIdle == [pc |-> "off", logging |-> FALSE, i |-> 0, calls |-> 0,
            bound |-> FALSE, mask_epipolar |-> <<>>, error |-> "none",
            left_inliers |-> <<>>, right_inliers |-> <<>>]

RunStart(logging) == [RunIdle EXCEPT !.pc = "loop", !.logging = logging]

HistIdle == [n |-> 0, firstGood |-> 0, firstGoodMask |-> <<>>, last |-> <<>>]

\* what one invocation of cv2.findEssentialMat can hand back for n pairs
Masks(n) == [1..n -> BOOLEAN]
EstimatorOutcomes(n) ==
    { [kind |-> "mask", mask |-> m] : m \in Masks(n) }
    \cup { [kind |-> "None", mask |-> <<>>], [kind |-> "error", mask |-> <<>>] }

\* ratio > args_epipolar.inlierRatio with ratio = s / n
RatioExceeds(s, n, thr) == s * thr[2] > thr[1] * n

\* variants of the loop range: one trial too many, one trial too few
InRange_more(i, n) == i <= n
InRange_less(i, n) == i < n - 1

\* for i in range(numTrials)
InRange(i, n) == i < n

\* variant: the right inliers are taken from the left points
Return_left(f) ==
    IF ~f.bound
    THEN [f EXCEPT !.pc = "raised", !.error = "UnboundLocalError"]
    ELSE [f EXCEPT !.pc = "returned",
                   !.left_inliers = BoolIndex(leftMatchesPoints, f.mask_epipolar),
                   !.right_inliers = BoolIndex(leftMatchesPoints, f.mask_epipolar)]

\* lines 110-113
Return(f) ==
    IF ~f.bound
    THEN [f EXCEPT !.pc = "raised", !.error = "UnboundLocalError"]
    ELSE [f EXCEPT !.pc = "returned",
                   !.left_inliers = BoolIndex(leftMatchesPoints, f.mask_epipolar),
                   !.right_inliers = BoolIndex(rightMatchedPoints, f.mask_epipolar)]

\* lines 86-108: one iteration of the loop, the estimator handing back o
LoopBody(f, o) ==
    IF o.kind = "error"
    THEN [f EXCEPT !.calls = @ + 1, !.pc = "raised", !.error = "cv2.error"]
    ELSE IF o.kind = "None"
    THEN [f EXCEPT !.calls = @ + 1, !.pc = "raised", !.error = "AttributeError"]
    ELSE LET g == [f EXCEPT !.calls = @ + 1, !.bound = TRUE,
                            !.mask_epipolar = o.mask]
         IN  IF Len(o.mask) = 0
             THEN [g EXCEPT !.pc = "raised", !.error = "ZeroDivisionError"]
             ELSE IF f.logging
                     /\ RatioExceeds(sum(o.mask), Len(o.mask), inlierRatio)
                  THEN [g EXCEPT !.pc = "break"]
                  ELSE [g EXCEPT !.pc = "next"]

\* loop control after the body, and the code after the loop
Advance(f) ==
    IF f.pc = "break" THEN Return(f)
    ELSE IF f.pc = "next"
         THEN IF InRange(f.i + 1, numTrials)
              THEN [f EXCEPT !.i = @ + 1, !.pc = "loop"]
              ELSE Return(f)
         ELSE f

Active(f) == f.pc = "loop" /\ InRange(f.i, numTrials)
Skipped(f) == f.pc = "loop" /\ ~InRange(f.i, numTrials)
Finished(f) == f.pc \in {"returned", "raised"}

HistNext(h, o) ==
    LET good == /\ o.kind = "mask"
                /\ Len(o.mask) > 0
                /\ RatioExceeds(sum(o.mask), Len(o.mask), inlierRatio)
    IN  [n |-> h.n + 1,
         firstGood |-> IF h.firstGood = 0 /\ good THEN h.n + 1 ELSE h.firstGood,
         firstGoodMask |-> IF h.firstGood = 0 /\ good THEN o.mask
                           ELSE h.firstGoodMask,
         last |-> o.mask]

\* one trial: the estimator is invoked and the loop body runs on its outcome
Trial ==
    /\ Active(run) \/ Active(twin)
    /\ \E o \in EstimatorOutcomes(Len(leftMatchesPoints)) :
          /\ run' = IF Active(run) THEN Advance(LoopBody(run, o)) ELSE run
          /\ twin' = IF Active(twin) THEN Advance(LoopBody(twin, o)) ELSE twin
          /\ hist' = HistNext(hist, o)
    /\ UNCHANGED matchArgs
    /\ UNCHANGED triVars

\* the loop has no iteration to run: control falls through to line 110
LoopSkipped ==
    /\ Skipped(run) \/ Skipped(twin)
    /\ run' = IF Skipped(run) THEN Return(run) ELSE run
    /\ twin' = IF Skipped(twin) THEN Return(twin) ELSE twin
    /\ UNCHANGED hist
    /\ UNCHANGED matchArgs
    /\ UNCHANGED triVars

----------------------------------------------------------------------------
(* Specifications *)

PointSeqs(n) == { [k \in 1..n |-> <<x0 + k, k>>] : x0 \in PixelOffsets }

TriArgsInit ==
    /\ \E n \in 0..MaxPts :
          /\ points3D \in [1..n -> Candidates3D]
          /\ reprojError \in [1..n -> ReprojErrors]
    /\ minDistThresh \in MinDistThreshs
    /\ maxRadius \in MaxRadii
    /\ repErrThresh \in RepErrThreshs

TriArgsNone ==
    /\ points3D = <<>>
    /\ reprojError = <<>>
    /\ minDistThresh = 0
    /\ maxRadius = 0
    /\ repErrThresh = 0

MatchArgsInit ==
    /\ \E n \in 0..MaxN :
          /\ leftMatchesPoints \in PointSeqs(n)
          /\ rightMatchedPoints \in PointSeqs(n)
    /\ numTrials \in 0..MaxTrials
    /\ inlierRatio \in InlierRatios

MatchArgsNone ==
    /\ leftMatchesPoints = <<>>
    /\ rightMatchedPoints = <<>>
    /\ numTrials = 0
    /\ inlierRatio = <<1, 2>>

InitTri ==
    /\ TriArgsInit
    /\ tri = TriIdle
    /\ MatchArgsNone
    /\ run = RunIdle
    /\ twin = RunIdle
    /\ hist = HistIdle

InitMatch ==
    /\ TriArgsNone
    /\ tri = [TriIdle EXCEPT !.pc = "off"]
    /\ MatchArgsInit
    /\ \E logging \in BOOLEAN : run = RunStart(logging)
    /\ twin = RunIdle
    /\ hist = HistIdle

\* two calls on the same arguments and estimator outcomes, the debug flag
\* params.debug.logging.inliersFilterRANSAC set in one and cleared in the other
InitPair ==
    /\ TriArgsNone
    /\ tri = [TriIdle EXCEPT !.pc = "off"]
    /\ MatchArgsInit
    /\ \E logging \in BOOLEAN :
          /\ run = RunStart(logging)
          /\ twin = RunStart(~logging)
    /\ hist = HistIdle

NextTri == filter_triangulated_points
NextMatch == Trial \/ LoopSkipped

SpecTri == InitTri /\ [][NextTri]_vars
SpecMatch == InitMatch /\ [][NextMatch]_vars
SpecPair == InitPair /\ [][NextMatch]_vars
FairMatch == InitMatch /\ [][NextMatch]_vars /\ WF_vars(NextMatch)

----------------------------------------------------------------------------
(* Properties *)

TrueIdx(mask) == { k \in 1..Len(mask) : mask[k] }
KthTrue(mask, k) ==
    CHOOSE j \in TrueIdx(mask) : Cardinality({ m \in TrueIdx(mask) : m <= j }) = k
SquaredNorm(p) == p[1] * p[1] + p[2] * p[2] + p[3] * p[3]
Admissible(k) ==
    /\ xMin < points3D[k][1] /\ points3D[k][1] < xMax
    /\ yMin < points3D[k][2] /\ points3D[k][2] < yMax
    /\ points3D[k][3] > minDistThresh
    /\ SquaredNorm(points3D[k]) < maxRadius
    /\ reprojError[k] < repErrThresh

\* C1: in filter_triangulated_points, mask[i] is true exactly when point i
\* passes all five admissibility conditions (x range, y range, z above
\* minDistThresh, squared norm below maxRadius, reprojection error below
\* repErrThresh).
C1_MaskIffAdmissible ==
    tri.pc = "returned" =>
        \A k \in 1..Len(points3D) : tri.mask_triangulation[k] <=> Admissible(k)

\* C2: a point with z <= minDistThresh is never accepted: its mask entry is
\* false and no such point is in the filtered output.
C2_BehindCameraRejected ==
    tri.pc = "returned" =>
        /\ \A k \in 1..Len(points3D) :
              points3D[k][3] <= minDistThresh => ~tri.mask_triangulation[k]
        /\ \A j \in 1..Len(tri.points3D_filter) :
              tri.points3D_filter[j][3] > minDistThresh

\* C3: every accepted point has x*x + y*y + z*z < maxRadius.
C3_AcceptedWithinRadius ==
    tri.pc = "returned" =>
        \A k \in 1..Len(points3D) :
            tri.mask_triangulation[k] => SquaredNorm(points3D[k]) < maxRadius

\* C6: with empty input filter_triangulated_points returns an empty filtered
\* set, an empty mask and the ratio 0, and does not fail on the division.
C6_EmptyInputReturnsZero ==
    (Len(points3D) = 0 /\ tri.pc \in {"returned", "raised"}) =>
        /\ tri.pc = "returned"
        /\ tri.points3D_filter = <<>>
        /\ tri.mask_triangulation = <<>>
        /\ tri.ratioFilter[1] = 0 /\ tri.ratioFilter[2] # 0

\* C8: for non-empty input the call returns; the filtered output is the
\* subsequence of points3D at the true mask indices in input order, as long
\* as the number of true entries; the mask has length N; the ratio equals
\* count(mask)/N and lies in [0, 1].
C8_FilteredMatchesMask ==
    (Len(points3D) > 0 /\ tri.pc # "call") =>
        LET mask == tri.mask_triangulation
            cnt == Cardinality(TrueIdx(mask))
        IN  /\ tri.pc = "returned"
            /\ Len(mask) = Len(points3D)
            /\ Len(tri.points3D_filter) = cnt
            /\ \A j \in 1..cnt :
                  tri.points3D_filter[j] = points3D[KthTrue(mask, j)]
            /\ tri.ratioFilter[2] > 0
            /\ tri.ratioFilter[1] * Len(points3D) = cnt * tri.ratioFilter[2]
            /\ 0 <= tri.ratioFilter[1]
            /\ tri.ratioFilter[1] <= tri.ratioFilter[2]

C8_Witness ==
    /\ tri.pc = "returned"
    /\ Len(points3D) = 2
    /\ ~tri.mask_triangulation[1]
    /\ tri.mask_triangulation[2]
    /\ tri.points3D_filter = <<points3D[2]>>

\* C4: the trials run in order and stop at the first trial whose inlier
\* ratio is strictly greater than inlierRatio: the estimator is not invoked
\* after that trial and the returned mask is that trial's mask.
C4_StopsAtFirstGoodTrial ==
    hist.firstGood # 0 =>
        /\ run.calls <= hist.firstGood
        /\ run.pc = "returned" => run.mask_epipolar = hist.firstGoodMask

\* C5: two calls with the same arguments and the same estimator outcomes
\* that differ only in the debug logging flag invoke the estimator the same
\* number of times and give the same mask and the same inlier points.
C5_LoggingDoesNotMatter ==
    (Finished(run) /\ Finished(twin)) =>
        /\ run.pc = twin.pc
        /\ run.calls = twin.calls
        /\ run.mask_epipolar = twin.mask_epipolar
        /\ run.left_inliers = twin.left_inliers
        /\ run.right_inliers = twin.right_inliers

C9_InliersAligned ==
    run.pc = "returned" =>
        LET mask == run.mask_epipolar
            cnt == Cardinality(TrueIdx(mask))
        IN  /\ Len(mask) = Len(leftMatchesPoints)
            /\ Len(run.left_inliers) = cnt
            /\ Len(run.right_inliers) = cnt
            /\ \A k \in 1..cnt :
                  /\ run.left_inliers[k] = leftMatchesPoints[KthTrue(mask, k)]
                  /\ run.right_inliers[k] = rightMatchedPoints[KthTrue(mask, k)]

C9_Witness ==
    /\ run.pc = "returned"
    /\ leftMatchesPoints # rightMatchedPoints
    /\ Len(run.mask_epipolar) >= 3
    /\ ~run.mask_epipolar[1]
    /\ run.mask_epipolar[2]
    /\ ~run.mask_epipolar[3]
    /\ Len(run.left_inliers) >= 1

\* C10: the estimator is invoked at most numTrials times, the call
\* terminates, and when no trial's ratio exceeds the threshold the returned
\* mask is the one computed by the numTrials-th trial.
C10_BoundedTrials ==
    /\ [](run.calls <= numTrials)
    /\ <>Finished(run)
    /\ []((run.pc = "returned" /\ hist.firstGood = 0) =>
            (run.calls = numTrials /\ hist.n = numTrials
             /\ run.mask_epipolar = hist.last))

C10_Witness ==
    /\ run.pc = "returned"
    /\ hist.firstGood = 0
    /\ numTrials >= 2
    /\ run.calls = numTrials

====
